---------------------------- MODULE Spec2Model ----------------------------
(***************************************************************************)
(* MoleQule: the Arrhenius shelf-life calculation and its presentation     *)
(* (app.py) and the stability classifier (stability.py).                   *)
(*                                                                         *)
(* Numbers.  The script computes with IEEE doubles whose magnitudes run    *)
(* from about 1e-60 to 1e+60.  A double is modelled by its kind (finite    *)
(* non-zero, zero, infinity, NaN), its sign and, for a finite non-zero     *)
(* value, its natural logarithm in millionths (ln, an integer).  In this   *)
(* representation exp is the map from a fixed-point number to the value    *)
(* with that logarithm, a product adds logarithms and a quotient subtracts *)
(* them; results leave the finite range the way doubles do (overflow to    *)
(* infinity, underflow to zero, 0/0 and inf*0 to NaN).  Rounding below one *)
(* millionth in the logarithm is not modelled.                             *)
(*                                                                         *)
(* Units.  Activation energies are integers in tenths of kJ/mol (85.2 is   *)
(* 852), temperatures are integers in kelvin, R is in thousandths of       *)
(* J/(mol K).                                                              *)
(***************************************************************************)
EXTENDS Integers, Sequences, FiniteSets

VARIABLES
    drug_choice,       \* app.py:91   the molecule picked in the select box
    temperature,       \* app.py:106  the slider's value, in kelvin
    uploaded_file,     \* app.py:118  the uploaded file's type, or "None"
    t90_ref_days,      \* app.py:132
    Ea,                \* app.py:133
    A,                 \* app.py:134
    t90_days,          \* app.py:140  the numeric shelf life of this run
    t90,               \* app.py:138-148  the displayed shelf life
    invoked,           \* the calls of calculate_shelf_life made by this run
    kin_args,          \* arguments of a direct call of calculate_shelf_life
    kin_ret,           \* what that call returned or raised
    stab_args,         \* arguments of a call of predict_stability
    stab_ret           \* what that call returned

vars == <<drug_choice, temperature, uploaded_file, t90_ref_days, Ea, A,
          t90_days, t90, invoked, kin_args, kin_ret,
          stab_args, stab_ret>>

-----------------------------------------------------------------------------
(* Bounds of the model *)

\* the longest frequency list handed to predict_stability
MaxFreqLen == 3

\* direct calls of calculate_shelf_life use the temperatures
\* SliderMin, SliderMin + SliderStep, ..., up to this many steps
MaxTempSteps == 10

\* the shelf lives handed to the display code lie on a grid of this many
\* points on each side of one day, a fifth of a unit of ln apart
MaxGrid == 50

-----------------------------------------------------------------------------
(* Doubles *)

Num(s, l) == [k |-> "num", s |-> s, ln |-> l]
Zero(s)   == [k |-> "zero", s |-> s, ln |-> 0]
Inf(s)    == [k |-> "inf", s |-> s, ln |-> 0]
NaN       == [k |-> "nan", s |-> 1, ln |-> 0]

\* a value a statement never assigned (the name is unbound in this run)
Unbound   == [k |-> "unbound", s |-> 1, ln |-> 0]

\* an exception leaving the function instead of a value
Raised(e) == [k |-> e, s |-> 1, ln |-> 0]

\* the call has not been made yet
Pending   == [k |-> "pending", s |-> 1, ln |-> 0]

IsNumber(x) == x.k \in {"num", "zero", "inf", "nan"}

\* a finite non-zero result of magnitude exp(l / 10^6), brought back into
\* the range of a double: above ln(1.797e308) = 709.782712 it is infinite,
\* below ln(2^-1075) = -745.133219 it is zero
Saturate(s, l) ==
    IF l > 709782712 THEN Inf(s)
    ELSE IF l < -745133219 THEN Zero(s)
    ELSE Num(s, l)

\* x * y on doubles
Mul(x, y) ==
    IF x.k = "nan" \/ y.k = "nan" THEN NaN
    ELSE IF (x.k = "zero" /\ y.k = "inf") \/ (x.k = "inf" /\ y.k = "zero") THEN NaN
    ELSE IF x.k = "zero" \/ y.k = "zero" THEN Zero(x.s * y.s)
    ELSE IF x.k = "inf" \/ y.k = "inf" THEN Inf(x.s * y.s)
    ELSE Saturate(x.s * y.s, x.ln + y.ln)

\* x / y where an operand is a numpy float64: a zero divisor gives an
\* infinity or NaN (and a warning), never an exception
Div(x, y) ==
    IF x.k = "nan" \/ y.k = "nan" THEN NaN
    ELSE IF (x.k = "zero" /\ y.k = "zero") \/ (x.k = "inf" /\ y.k = "inf") THEN NaN
    ELSE IF x.k = "zero" \/ y.k = "inf" THEN Zero(x.s * y.s)
    ELSE IF x.k = "inf" \/ y.k = "zero" THEN Inf(x.s * y.s)
    ELSE Saturate(x.s * y.s, x.ln - y.ln)

\* where a value sits on the extended real line: -inf, negative, zero,
\* positive, +inf
Class(x) ==
    IF x.k = "inf" THEN (IF x.s < 0 THEN 0 ELSE 4)
    ELSE IF x.k = "zero" THEN 2
    ELSE IF x.s < 0 THEN 1 ELSE 3

\* x < y on doubles: false whenever an operand is NaN
Lt(x, y) ==
    IF x.k = "nan" \/ y.k = "nan" THEN FALSE
    ELSE \/ Class(x) < Class(y)
         \/ Class(x) = Class(y) /\ Class(x) = 3 /\ x.ln < y.ln
         \/ Class(x) = Class(y) /\ Class(x) = 1 /\ x.ln > y.ln

\* np.exp of the fixed-point number e (in millionths)
Exp(e) == Saturate(1, e)

RECURSIVE LongDiv(_, _, _)
\* n / d for naturals n and d > 0, cut after `digits` decimal digits and
\* scaled by 10^digits
LongDiv(n, d, digits) ==
    IF digits = 0 THEN n \div d
    ELSE (n \div d) * (10 ^ digits) + LongDiv((n % d) * 10, d, digits - 1)

Abs(i) == IF i < 0 THEN -i ELSE i
Sign(i) == IF i < 0 THEN -1 ELSE 1


-----------------------------------------------------------------------------
(* app.py: constants and the drug database *)

\* J/(mol K), in thousandths: 8.314
R == 8314

DAY_TO_SECONDS == 86400

\* st.slider(min_value=273, max_value=323, value=298, step=5)
SliderMin == 273
SliderMax == 323
SliderDefault == 298
SliderStep == 5

\* the default of calculate_shelf_life's parameter T_ref
T_ref_default == 298

\* the literals of the shelf-life code, as doubles:
\* 0.105, 1, 24, 30 and 365 have the logarithms -2.253795, 0, 3.178054,
\* 3.401197 and 5.899897
Const0105 == Num(1, -2253795)
Const1    == Num(1, 0)
Const24   == Num(1, 3178054)
Const30   == Num(1, 3401197)
Const365  == Num(1, 5899897)

Methane == "Methane (CH4)"

\* Ea in tenths of kJ/mol; A and t90_ref as doubles:
\* ln 1.15e12 = 27.770783, ln 1.0e13 = 29.933606, ln 1.0e16 = 36.841361,
\* ln 3.2 = 1.163151, ln 0.003 = -5.809143, ln 1000 = 6.907755
DRUG_DB ==
    [d \in {"Aspirin", "Cyclobutadiene (Unstable)", Methane} |->
        IF d = "Aspirin" THEN
            [Ea |-> 852, A |-> Num(1, 27770783), t90_ref |-> Num(1, 1163151)]
        ELSE IF d = "Cyclobutadiene (Unstable)" THEN
            [Ea |-> 250, A |-> Num(1, 29933606), t90_ref |-> Num(1, -5809143)]
        ELSE
            [Ea |-> 4350, A |-> Num(1, 36841361), t90_ref |-> Num(1, 6907755)]]

SliderValues ==
    {t \in SliderMin..SliderMax : (t - SliderMin) % SliderStep = 0}

\* st.file_uploader(type=["smi", "mol", "xyz"])
FileTypes == {"None", "smi", "mol", "xyz"}

-----------------------------------------------------------------------------
(* app.py:125-129  calculate_shelf_life *)

\* -Ea * 1000 / (R * T) in millionths, for T # 0.  Ea * 1000 is in J/mol;
\* the quotient of two Python floats is taken digit by digit.  A quotient
\* beyond 2000 is far outside what exp can represent and is returned as
\* 2000, which exp sends to infinity or zero all the same.
ArrheniusExponent(Ea_, T) ==
    LET n == Abs(Ea_) * 100000
        d == R * Abs(T)
        sgn == -(Sign(Ea_) * Sign(T))
    IN  IF n \div d >= 2000 THEN sgn * 2000000000
        ELSE sgn * LongDiv(n, d, 6)

\* A * np.exp(-Ea * 1000 / (R * T))
Rate(Ea_, A_, T) == Mul(A_, Exp(ArrheniusExponent(Ea_, T)))

\* DAY_TO_SECONDS / 86400: the quotient of two equal integers is 1.0
DayFactor == IF DAY_TO_SECONDS = 86400 THEN Const1 ELSE NaN

\* faulty variant: the exponent is taken at the reference temperature both times
calculate_shelf_life_at_ref(Ea_, A_, T, T_ref) ==
    IF T_ref = 0 \/ T = 0 THEN Raised("ZeroDivisionError")
    ELSE LET k_ref == Rate(Ea_, A_, T_ref)
             k     == Rate(Ea_, A_, T_ref)
         IN  Mul(Mul(Div(Const0105, k_ref), Div(k_ref, k)), DayFactor)

\* faulty variant: the reference shelf-life ratio alone, k_ref / k
calculate_shelf_life_ratio(Ea_, A_, T, T_ref) ==
    IF T_ref = 0 \/ T = 0 THEN Raised("ZeroDivisionError")
    ELSE LET k_ref == Rate(Ea_, A_, T_ref)
             k     == Rate(Ea_, A_, T)
         IN  Mul(Div(k_ref, k), DayFactor)

\* The two divisions by R * T are divisions of Python floats and raise
\* ZeroDivisionError when the temperature is 0 (line 127 for T_ref, line 128
\* for T); everything after np.exp is numpy arithmetic and raises nothing.
calculate_shelf_life(Ea_, A_, T, T_ref) ==
    IF T_ref = 0 \/ T = 0 THEN Raised("ZeroDivisionError")
    ELSE LET k_ref == Rate(Ea_, A_, T_ref)
             k     == Rate(Ea_, A_, T)
         IN  Mul(Mul(Div(Const0105, k_ref), Div(k_ref, k)), DayFactor)

-----------------------------------------------------------------------------
(* app.py:136-148, 191  the displayed shelf life *)

\* the string f"{v:.1f} <unit>": the number it shows and its unit label
Str(v, unit) == [str |-> TRUE, num |-> v, unit |-> unit]

\* a string literal with no number formatted into it
Literal(text) == [str |-> TRUE, num |-> Unbound, unit |-> text]

\* faulty variant: the day threshold is compared with <= instead of <
format_t90_le(d) ==
    IF Lt(d, Const1) \/ d = Const1 THEN Str(Mul(d, Const24), "hours")
    ELSE IF Lt(d, Const30) THEN Str(d, "days")
    ELSE IF Lt(d, Const365) THEN Str(Div(d, Const30), "months")
    ELSE Str(Div(d, Const365), "years")

\* app.py:141-148
format_t90(d) ==
    IF Lt(d, Const1) THEN Str(Mul(d, Const24), "hours")
    ELSE IF Lt(d, Const30) THEN Str(d, "days")
    ELSE IF Lt(d, Const365) THEN Str(Div(d, Const30), "months")
    ELSE Str(Div(d, Const365), "years")

\* app.py:191  t90 if isinstance(t90, str) else f"{t90:.1f} years"
results_shelf_life(x) == IF x.str THEN x ELSE Str(x, "years")

\* faulty variant: the inert molecule is looked up under a key the database does
\* not hold, so every molecule takes the numeric branch
shelf_life_section_no_sentinel(dc, temp) ==
    LET deg == DRUG_DB[dc]
        d   == calculate_shelf_life(deg.Ea, deg.A, temp, T_ref_default)
    IN  [t90_ref_days |-> Mul(deg.t90_ref, Const365),
         Ea |-> deg.Ea, A |-> deg.A,
         t90_days |-> d, t90 |-> format_t90(d),
         invoked |-> <<[Ea |-> deg.Ea, A |-> deg.A, T |-> temp,
                        T_ref |-> T_ref_default]>>]

\* app.py:131-148: what one run of the script binds, for the molecule dc and
\* the slider value temp.  The slider never gives 0, so the call returns.
shelf_life_section(dc, temp) ==
    LET deg == DRUG_DB[dc]
        d   == calculate_shelf_life(deg.Ea, deg.A, temp, T_ref_default)
    IN  IF dc = Methane THEN
            [t90_ref_days |-> Mul(deg.t90_ref, Const365),
             Ea |-> deg.Ea, A |-> deg.A,
             t90_days |-> Unbound, t90 |-> Literal(">1000 years"),
             invoked |-> << >>]
        ELSE
            [t90_ref_days |-> Mul(deg.t90_ref, Const365),
             Ea |-> deg.Ea, A |-> deg.A,
             t90_days |-> d, t90 |-> format_t90(d),
             invoked |-> <<[Ea |-> deg.Ea, A |-> deg.A, T |-> temp,
                            T_ref |-> T_ref_default]>>]

-----------------------------------------------------------------------------
(* stability.py *)

Fin(v)  == [k |-> "fin", v |-> v]
NaNFreq == [k |-> "nan", v |-> 0]
PosInf  == [k |-> "inf", v |-> 1]
NegInf  == [k |-> "inf", v |-> -1]

\* freq < 0 on a float: false for NaN
FreqLtZero(freq) ==
    \/ freq.k = "fin" /\ freq.v < 0
    \/ freq.k = "inf" /\ freq.v < 0

RECURSIVE any_negative(_)
\* any(freq < 0 for freq in vibrational_freqs): left to right, stopping at
\* the first true element
any_negative(freqs) ==
    IF freqs = << >> THEN FALSE
    ELSE IF FreqLtZero(Head(freqs)) THEN TRUE
    ELSE any_negative(Tail(freqs))

\* the faulty test freq <= 0, over the list
RECURSIVE any_non_positive(_)
any_non_positive(freqs) ==
    IF freqs = << >> THEN FALSE
    ELSE IF FreqLtZero(Head(freqs)) \/ Head(freqs) = Fin(0) THEN TRUE
    ELSE any_non_positive(Tail(freqs))

\* faulty variant: the test is freq <= 0
predict_stability_le(ground_energy, vibrational_freqs) ==
    IF any_non_positive(vibrational_freqs)
    THEN "Unstable (imaginary frequencies)"
    ELSE "Thermodynamically Stable"

\* faulty variant: a positive ground-state energy is taken as a sign of instability
predict_stability_energy(ground_energy, vibrational_freqs) ==
    IF ground_energy > 0 \/ any_negative(vibrational_freqs)
    THEN "Unstable (imaginary frequencies)"
    ELSE "Thermodynamically Stable"

predict_stability(ground_energy, vibrational_freqs) ==
    IF any_negative(vibrational_freqs)
    THEN "Unstable (imaginary frequencies)"
    ELSE "Thermodynamically Stable"

-----------------------------------------------------------------------------
(* The dashboard: Streamlit runs the whole script again after every change *)
(* of a widget, in a fresh namespace                                       *)

NoArgs == [none |-> TRUE]
NotRendered == [str |-> FALSE, num |-> Unbound, unit |-> ""]

KinIdle == kin_args = NoArgs /\ kin_ret = Pending
StabIdle == stab_args = NoArgs /\ stab_ret = "pending"

\* the bindings of one run of the script
Ran(dc, temp, t90_ref_days_, Ea_, A_, t90_days_, t90_, invoked_) ==
    LET r == shelf_life_section(dc, temp)
    IN  /\ t90_ref_days_ = r.t90_ref_days
        /\ Ea_ = r.Ea
        /\ A_ = r.A
        /\ t90_days_ = r.t90_days
        /\ t90_ = r.t90
        /\ invoked_ = r.invoked

\* the first run: the select box shows the first key of DRUG_DB, the slider
\* its default, and no file is uploaded
InitDashboard ==
    /\ drug_choice = "Aspirin"
    /\ temperature = SliderDefault
    /\ uploaded_file = "None"
    /\ Ran(drug_choice, temperature, t90_ref_days, Ea, A, t90_days, t90, invoked)

Init == InitDashboard /\ KinIdle /\ StabIdle

\* app.py:91  another molecule is picked
SelectMolecule(d) ==
    /\ d # drug_choice
    /\ drug_choice' = d
    /\ Ran(d, temperature, t90_ref_days', Ea', A', t90_days', t90', invoked')
    /\ UNCHANGED <<temperature, uploaded_file, kin_args, kin_ret, stab_args, stab_ret>>

\* app.py:106  the slider is moved
MoveSlider(t) ==
    /\ t # temperature
    /\ temperature' = t
    /\ Ran(drug_choice, t, t90_ref_days', Ea', A', t90_days', t90', invoked')
    /\ UNCHANGED <<drug_choice, uploaded_file, kin_args, kin_ret, stab_args, stab_ret>>

\* app.py:118  a file is uploaded or removed; the script does not read it
UploadFile(f) ==
    /\ f # uploaded_file
    /\ uploaded_file' = f
    /\ Ran(drug_choice, temperature, t90_ref_days', Ea', A', t90_days', t90', invoked')
    /\ UNCHANGED <<drug_choice, temperature, kin_args, kin_ret, stab_args, stab_ret>>

Next ==
    \/ \E d \in DOMAIN DRUG_DB : SelectMolecule(d)
    \/ \E t \in SliderValues : MoveSlider(t)
    \/ \E f \in FileTypes : UploadFile(f)

Spec == Init /\ [][Next]_vars

-----------------------------------------------------------------------------
(* calculate_shelf_life called directly *)

KinEa == {-50, 0, 250, 852, 4350}

KinA == {Num(-1, 29933606), Zero(1), Num(1, 27770783), Num(1, 29933606)}

KinT == {-298, -1, 0} \cup {SliderMin + SliderStep * i : i \in 0..MaxTempSteps}

KinTref == {T_ref_default, 310}

KinInputs == [Ea : KinEa, A : KinA, T : KinT, T_ref : KinTref]

InitKinetics ==
    /\ InitDashboard
    /\ kin_args \in KinInputs
    /\ kin_ret = Pending
    /\ StabIdle

CallShelfLife ==
    /\ kin_ret = Pending
    /\ kin_ret' = calculate_shelf_life(kin_args.Ea, kin_args.A, kin_args.T, kin_args.T_ref)
    /\ UNCHANGED <<drug_choice, temperature, uploaded_file, t90_ref_days, Ea, A,
                   t90_days, t90, invoked, kin_args, stab_args, stab_ret>>

NextKinetics == CallShelfLife

SpecKinetics == InitKinetics /\ [][NextKinetics]_vars

-----------------------------------------------------------------------------
(* The display code applied to a shelf life *)

DisplayInputs ==
    {Num(1, 200000 * i) : i \in (-MaxGrid)..MaxGrid}
    \cup {Num(1, c.ln + j) : c \in {Const1, Const30, Const365}, j \in {-1, 0, 1}}

InitDisplay ==
    /\ drug_choice = "Aspirin"
    /\ temperature = SliderDefault
    /\ uploaded_file = "None"
    /\ t90_ref_days = shelf_life_section(drug_choice, temperature).t90_ref_days
    /\ Ea = DRUG_DB[drug_choice].Ea
    /\ A = DRUG_DB[drug_choice].A
    /\ invoked = shelf_life_section(drug_choice, temperature).invoked
    /\ t90_days \in DisplayInputs
    /\ t90 = NotRendered
    /\ KinIdle
    /\ StabIdle

Render ==
    /\ t90 = NotRendered
    /\ t90' = format_t90(t90_days)
    /\ UNCHANGED <<drug_choice, temperature, uploaded_file, t90_ref_days, Ea, A,
                   t90_days, invoked, kin_args, kin_ret, stab_args, stab_ret>>

NextDisplay == Render

SpecDisplay == InitDisplay /\ [][NextDisplay]_vars

-----------------------------------------------------------------------------
(* predict_stability called directly *)

Energies == {-1027, -40, 395}

FreqValues == {Fin(-50), Fin(0), Fin(50), Fin(100), Fin(200), NaNFreq, PosInf, NegInf}

FreqLists == UNION {[1..n -> FreqValues] : n \in 0..MaxFreqLen}

InitStability ==
    /\ InitDashboard
    /\ KinIdle
    /\ stab_args \in [ground_energy : Energies, vibrational_freqs : FreqLists]
    /\ stab_ret = "pending"

CallPredictStability ==
    /\ stab_ret = "pending"
    /\ stab_ret' = predict_stability(stab_args.ground_energy, stab_args.vibrational_freqs)
    /\ UNCHANGED <<drug_choice, temperature, uploaded_file, t90_ref_days, Ea, A,
                   t90_days, t90, invoked, kin_args, kin_ret, stab_args>>

NextStability == CallPredictStability

SpecStability == InitStability /\ [][NextStability]_vars

-----------------------------------------------------------------------------
(* Properties *)

Unstable == "Unstable (imaginary frequencies)"
Stable   == "Thermodynamically Stable"

KinCalled  == kin_ret # Pending
StabCalled == stab_ret # "pending"

\* x >= y on doubles
Ge(x, y) == Lt(y, x) \/ (x.k # "nan" /\ x = y)

Positive(x) == Lt(Zero(1), x)

\* C1: with the temperature equal to the reference temperature the shelf
\* life computed for a molecule is its reference shelf life in days
\* (3.2 * 365 days for Aspirin at 298 K).
C1_ReferenceIdentity ==
    (invoked # << >> /\ invoked[1].T = invoked[1].T_ref)
        => t90_days = t90_ref_days

\* C2: the computed shelf life is the reference shelf life in days times
\* rate(T_ref) / rate(T).
C2_ScaledReference ==
    invoked # << >>
        => t90_days = Mul(t90_ref_days,
                          Div(Rate(Ea, A, invoked[1].T_ref),
                              Rate(Ea, A, invoked[1].T)))

AllFinite(freqs) == \A i \in 1..Len(freqs) : freqs[i].k = "fin"

\* C3: for every ground-state energy and every list of finite frequencies,
\* the empty list included, the verdict is Unstable if and only if some
\* frequency is strictly negative, and Stable otherwise.
C3_UnstableIffNegative ==
    (StabCalled /\ AllFinite(stab_args.vibrational_freqs))
        => LET f == stab_args.vibrational_freqs
               neg == \E i \in 1..Len(f) : f[i].v < 0
           IN  /\ neg => stab_ret = Unstable
               /\ ~neg => stab_ret = Stable

C3_Witness ==
    /\ stab_args # NoArgs
    /\ stab_args.vibrational_freqs = <<Fin(-50), Fin(100), Fin(200)>>
    /\ stab_ret = Unstable

\* C4: the shelf-life calculation fails with InvalidParameter whenever the
\* temperature or the frequency factor is not positive.
C4_InvalidParameter ==
    (KinCalled /\ (kin_args.T <= 0 \/ ~Positive(kin_args.A)))
        => kin_ret = Raised("InvalidParameter")

\* C5: the stability classifier fails with InvalidParameter whenever some
\* frequency is NaN or infinite.
C5_NonFiniteRejected ==
    (StabCalled /\ ~AllFinite(stab_args.vibrational_freqs))
        => stab_ret = "InvalidParameter"

ValidKinArgs ==
    /\ kin_args # NoArgs
    /\ kin_args.Ea >= 0
    /\ Positive(kin_args.A)
    /\ kin_args.T > 0
    /\ kin_args.T_ref > 0

C8_EnergyIgnored ==
    StabCalled
        => \A e \in Energies :
             predict_stability(e, stab_args.vibrational_freqs) = stab_ret

C8_Witness ==
    /\ StabCalled
    /\ stab_args.ground_energy > 0
    /\ stab_args.vibrational_freqs = <<Fin(50), Fin(100), Fin(200)>>
    /\ stab_ret = Stable

\* C9: a shelf life d is shown in hours (d * 24) if d < 1, in days if
\* 1 <= d < 30, in months (d / 30) if 30 <= d < 365 and in years (d / 365)
\* if d >= 365, and what the table shows is that labelled string.
C9_DisplayUnit ==
    t90 # NotRendered
        => LET d == t90_days
           IN  /\ Lt(d, Const1) => t90 = Str(Mul(d, Const24), "hours")
               /\ (Ge(d, Const1) /\ Lt(d, Const30)) => t90 = Str(d, "days")
               /\ (Ge(d, Const30) /\ Lt(d, Const365))
                      => t90 = Str(Div(d, Const30), "months")
               /\ Ge(d, Const365) => t90 = Str(Div(d, Const365), "years")
               /\ t90.str
               /\ t90.unit \in {"hours", "days", "months", "years"}
               /\ results_shelf_life(t90) = t90

C9_Witness ==
    /\ t90_days = Const30
    /\ t90 = Str(Const1, "months")

\* C10: for Methane the displayed shelf life is ">1000 years" at every
\* slider temperature and calculate_shelf_life is not called; for every
\* other molecule it is called once, with that molecule's Ea and A and the
\* slider's temperature.
C10_InertSentinel ==
    /\ temperature \in SliderValues
    /\ drug_choice = Methane
           => /\ t90 = Literal(">1000 years")
              /\ results_shelf_life(t90) = Literal(">1000 years")
              /\ invoked = << >>
    /\ drug_choice # Methane
           => invoked = <<[Ea |-> DRUG_DB[drug_choice].Ea,
                           A |-> DRUG_DB[drug_choice].A,
                           T |-> temperature,
                           T_ref |-> T_ref_default]>>

C10_Witness ==
    /\ drug_choice = Methane
    /\ temperature = SliderMax
    /\ t90 = Literal(">1000 years")
    /\ invoked = << >>

=============================================================================
